---------------------------- MODULE Spec2Model ----------------------------
(***************************************************************************)
(* A model of api/evaluator.py: the Evaluator object (item_id, oai_base,   *)
(* metadata, access_protocols), its construction from an OAI-PMH source,   *)
(* the RDA indicator methods, and the status / color views of a score.     *)
(*                                                                         *)
(* Python strings are TLA+ strings, except where the code slices them: a   *)
(* node tag is a sequence of tokens ("{", namespace, "}", local name) so   *)
(* that the rfind("}") split of the constructor is computed.  A score is   *)
(* an exact rational [num, den] because the code divides with "/".  A      *)
(* message is a sequence of fragments, each a sequence of strings (the     *)
(* format text followed by its arguments); '' is the empty sequence.       *)
(***************************************************************************)
EXTENDS Integers, Sequences, FiniteSets, TLC

VARIABLES
    item_id,            \* self.item_id
    oai_base,           \* self.oai_base
    metadata,           \* self.metadata: None or the sequence of rows
    access_protocols,   \* self.access_protocols
    phase,              \* "new" | "ready" | "failed" | "view"
    live,               \* the URLs that answer a GET with HTTP 200
    result,             \* outcome of the last indicator call
    score,              \* the points handed to test_status / get_color
    view,               \* [status, color] computed from score
    request,            \* the network request of the running method
    record              \* the nodes of the metadata container the constructor read

vars ==
    <<item_id, oai_base, metadata, access_protocols, phase, live, result, score, view, request,
      record>>

-----------------------------------------------------------------------------
(* Bounds of the model *)

MaxTerms == 2

MaxExtra == 1

MaxScore == 100

-----------------------------------------------------------------------------
(* Python values *)

None == "<None>"

Unset == "<unset>"

RECURSIVE GCD(_, _)
GCD(a, b) == IF b = 0 THEN a ELSE GCD(b, a % b)

\* a Python number: the value num/den (den > 0) in lowest terms; for a float,
\* ulp is the number of units in the last place by which the double the
\* program holds is off the double nearest to num/den (0 after one correctly
\* rounded operation on exact operands)
Rat(n, d) == LET g == GCD(n, d) IN [num |-> n \div g, den |-> d \div g, ulp |-> 0]

Whole(n) == [num |-> n, den |-> 1, ulp |-> 0]

RatAdd(p, q) == Rat(p.num * q.den + q.num * p.den, p.den * q.den)

RatDiv(p, k) == Rat(p.num, p.den * k)

RatLt(p, k) == p.num < k * p.den \/ (p.num = k * p.den /\ p.ulp < 0)

RatGt(p, k) == p.num > k * p.den \/ (p.num = k * p.den /\ p.ulp > 0)

RatEq(p, k) == p.num = k * p.den /\ p.ulp = 0

IsInteger(p) == p.den = 1 /\ p.ulp = 0

\* IEEE-754 double addition in the loop of rda_i2_01m: the double held after
\* r additions of the double 100/n, as its offset in units in the last place
\* from the double nearest to 100*r/n.  For n up to 7 the sum is off only
\* for 5/6, 6/6 (83.33333333333334, 100.00000000000001), 3/7, 6/7 and 7/7.
accumulated_drift(n, r) ==
    IF (n = 6 /\ r \in {5, 6}) \/ (n = 7 /\ r \in {3, 6, 7}) THEN 1 ELSE 0

\* points + 100 / n, where points holds the sum of earlier such additions
float_add_share(points, n) ==
    LET r == ((points.num * n) \div (100 * points.den)) + 1
    IN  [Rat(100 * r, n) EXCEPT !.ulp = accumulated_drift(n, r)]

\* a message made of one literal
Msg(s) == << <<s>> >>

\* a message made of one format text and its arguments
Fmt(s, args) == << <<s>> \o args >>

-----------------------------------------------------------------------------
(* Aggregator: the two views of a score *)

ColorRed == "#E74C3C"

ColorAmber == "#F4D03F"

ColorGreen == "#2ECC71"

get_color_green_from_70(points) ==
    IF RatLt(points, 50) THEN ColorRed
    ELSE IF RatGt(points, 70) THEN ColorGreen
    ELSE ColorAmber

get_color_strict_amber(points) ==
    IF RatLt(points, 50) \/ RatEq(points, 50) THEN ColorRed
    ELSE IF RatGt(points, 80) \/ RatEq(points, 80) THEN ColorGreen
    ELSE ColorAmber

get_color(points) ==
    IF RatLt(points, 50) THEN ColorRed
    ELSE IF RatGt(points, 80) THEN ColorGreen
    ELSE ColorAmber

test_status_pass_above_75(points) ==
    LET s1 == IF RatGt(points, 50) /\ RatLt(points, 75) THEN "indeterminate" ELSE "fail"
    IN  IF RatGt(points, 75) THEN "pass" ELSE s1

test_status(points) ==
    LET s1 == IF RatGt(points, 50) /\ RatLt(points, 75) THEN "indeterminate" ELSE "fail"
    IN  IF ~RatLt(points, 75) THEN "pass" ELSE s1

NoView == [status |-> Unset, color |-> Unset]

\* no request is in flight
NoRequest == [op |-> "none", url |-> <<>>, attempts |-> 0, pending |-> FALSE]

NoResult ==
    [ind |-> "none", kind |-> "none", points |-> Whole(0), msg |-> <<>>, refs |-> 0, net |-> {}]

ViewInit ==
    /\ item_id = None
    /\ oai_base = None
    /\ metadata = None
    /\ access_protocols = <<>>
    /\ phase = "view"
    /\ live = {}
    /\ result = NoResult
    /\ score \in 0..MaxScore
    /\ view = NoView
    /\ request = NoRequest
    /\ record = <<>>

TestStatus ==
    /\ phase = "view"
    /\ view.status = Unset
    /\ view' = [view EXCEPT !.status = test_status(Whole(score))]
    /\ UNCHANGED <<item_id, oai_base, metadata, access_protocols, phase, live, result, score, request,
                   record>>

GetColor ==
    /\ phase = "view"
    /\ view.color = Unset
    /\ view' = [view EXCEPT !.color = get_color(Whole(score))]
    /\ UNCHANGED <<item_id, oai_base, metadata, access_protocols, phase, live, result, score, request,
                   record>>

ViewNext ==
    \/ TestStatus
    \/ GetColor

SpecView == ViewInit /\ [][ViewNext]_vars

-----------------------------------------------------------------------------
(* C1: for every score s in 0..100 test_status(s) is exactly one of fail,  *)
(* indeterminate, pass; fail iff s <= 50, indeterminate iff 50 < s < 75,   *)
(* pass iff s >= 75.                                                       *)
C1_StatusBoundaries ==
    view.status # Unset =>
        /\ view.status \in {"fail", "indeterminate", "pass"}
        /\ (view.status = "fail" <=> score <= 50)
        /\ (view.status = "indeterminate" <=> (50 < score /\ score < 75))
        /\ (view.status = "pass" <=> score >= 75)

C1_Witness == score = 75 /\ view.status = "pass"

(* C2: for every score s in 0..100 get_color(s) is exactly one of red,     *)
(* amber, green; red iff s < 50, amber iff 50 <= s <= 80, green iff s > 80.*)
C2_ColorBoundaries ==
    view.color # Unset =>
        /\ view.color \in {ColorRed, ColorAmber, ColorGreen}
        /\ (view.color = ColorRed <=> score < 50)
        /\ (view.color = ColorAmber <=> (50 <= score /\ score <= 80))
        /\ (view.color = ColorGreen <=> score > 80)

C2_Witness == score = 80 /\ view.color = ColorAmber

-----------------------------------------------------------------------------
(* The strings the model draws identifiers, values and URLs from *)

DoiSelf == "10.1/abc"

DoiSelfUrl == "https://doi.org/10.1/abc"

DoiOther == "10.1/xyz"

PlainUrl == "http://example.org/x"

FreeText == "free text"

Endpoint == "http://repo.example.org/oai"

NsDC == "http://purl.org/dc/elements/1.1/"

NsOAI == "http://www.openarchives.org/OAI/2.0/oai_dc/"

\* the namespaces of a record that mixes vocabularies
VocabularyNamespaces ==
    << NsOAI, NsDC, "http://purl.org/dc/terms/", "http://datacite.org/schema/kernel-4",
       "http://xmlns.com/foaf/0.1/", "http://www.w3.org/2004/02/skos/core#" >>

\* the values requests accepts as a URL (anything else raises MissingSchema)
WellFormedUrls ==
    {DoiSelfUrl, PlainUrl, Endpoint}
      \cup { VocabularyNamespaces[i] : i \in DOMAIN VocabularyNamespaces }

\* the URLs whose liveness the environment decides
ProbedUrls == {NsDC, NsOAI, PlainUrl}

-----------------------------------------------------------------------------
(* idutils, as the evaluator calls it *)

\* idutils.detect_identifier_schemes(val), val a string: the ordered scheme
\* list, [] when nothing matches
detect_identifier_schemes(val) ==
    CASE val = DoiSelf -> <<"doi", "handle">>
      [] val = DoiOther -> <<"doi", "handle">>
      [] val = DoiSelfUrl -> <<"doi", "url">>
      [] val = PlainUrl -> <<"url">>
      [] val = Endpoint -> <<"url">>
      [] OTHER -> <<>>

\* detect_identifier_schemes(None) matches a regular expression against None:
\* TypeError
detect_raises(val) == val = None

\* whether normalize_pid(val, scheme) raises: the doi and handle normalizers
\* take group(2) of a match that is None when val is not of the scheme
normalize_raises(val, scheme) ==
    /\ val # None
    /\ scheme \in {"doi", "handle"}
    /\ ~(\E i \in DOMAIN detect_identifier_schemes(val) :
            detect_identifier_schemes(val)[i] = scheme)

\* idutils.normalize_pid(val, scheme): the resolver prefix is stripped for doi
\* and handle, case is kept; a url is returned as it is; None stays None
normalize_pid(val, scheme) ==
    CASE val = None -> None
      [] scheme = "doi" /\ val = DoiSelfUrl -> DoiSelf
      [] OTHER -> val

-----------------------------------------------------------------------------
(* Records of the metadata source *)

QualifiedTag(ns, local) == <<"{", ns, "}", local>>

BareTag(local) == <<local>>

Node(tag, text) == [tag |-> tag, text |-> text]

\* the nodes a harvested record is made of
Nodes ==
    { Node(QualifiedTag(NsOAI, "dc"), None),
      Node(QualifiedTag(NsDC, "identifier"), DoiSelf),
      Node(QualifiedTag(NsDC, "identifier"), FreeText),
      Node(QualifiedTag(NsDC, "identifier"), PlainUrl),
      Node(QualifiedTag(NsDC, "relation"), DoiOther),
      Node(QualifiedTag(NsDC, "relation"), DoiSelfUrl),
      Node(QualifiedTag(NsDC, "rights"), FreeText),
      Node(QualifiedTag(NsDC, "license"), PlainUrl),
      Node(QualifiedTag(NsDC, "title"), FreeText),
      Node(BareTag("contributor"), FreeText) }

RECURSIVE SeqsUpTo(_, _)
SeqsUpTo(S, n) ==
    IF n = 0 THEN { <<>> }
    ELSE LET shorter == SeqsUpTo(S, n - 1)
         IN  shorter \cup { Append(q, x) : q \in shorter, x \in S }

\* the descendant nodes of a record's metadata container, in document order
Documents == SeqsUpTo(Nodes, MaxTerms)

\* a GetRecord reply without a metadata container (its find() returns None)
NoMetadataElement == << Node(<<"header">>, "deleted") >>

-----------------------------------------------------------------------------
(* Construction *)

\* str.rfind(tok) on a token sequence, searched from position i down: the
\* last position holding tok, counted from 0, and -1 when there is none
RECURSIVE rfind(_, _, _)
rfind(str, tok, i) ==
    IF i = 0 THEN -1
    ELSE IF str[i] = tok THEN i - 1
    ELSE rfind(str, tok, i - 1)

\* tag[lo:hi] of Python
Slice(tag, lo, hi) == SubSeq(tag, lo + 1, hi)

row_of_node_blank_text(tags) ==
    LET r == rfind(tags.tag, "}", Len(tags.tag))
    IN  [ metadata_schema |-> Slice(tags.tag, 0, r + 1),
          element |-> Slice(tags.tag, r + 1, Len(tags.tag)),
          text_value |-> IF tags.text = None THEN "" ELSE tags.text,
          qualifier |-> None ]

\* one iteration of the loop over item_metadata.findall('.//')
row_of_node(tags) ==
    LET r == rfind(tags.tag, "}", Len(tags.tag))
    IN  [ metadata_schema |-> Slice(tags.tag, 0, r + 1),
          element |-> Slice(tags.tag, r + 1, Len(tags.tag)),
          text_value |-> tags.text,
          qualifier |-> None ]

\* the data list built by the loop, then the DataFrame
frame_of(nodes) == [ i \in 1..Len(nodes) |-> row_of_node(nodes[i]) ]

NoneFrame == [isNone |-> TRUE, rows |-> <<>>]

Frame(rows) == [isNone |-> FALSE, rows |-> rows]

\* ListMetadataFormats: the prefix whose namespace is the Dublin Core one,
\* '' when there is none
dc_prefix_of(metadataFormats) ==
    IF \E e \in DOMAIN metadataFormats : metadataFormats[e] = NsOAI
    THEN CHOOSE e \in DOMAIN metadataFormats : metadataFormats[e] = NsOAI
    ELSE ""

FormatReplies == { [oai_dc |-> NsOAI], [marcxml |-> "http://www.loc.gov/MARC21/slim"] }

\* urllib.parse.urlparse(url).netloc
netloc(url) == IF url = Endpoint THEN "repo.example.org" ELSE ""

\* a normalized identifier as the tokens its "." characters separate
pid_tokens(pid) ==
    CASE pid = DoiSelf -> <<"10", ".", "1/abc">>
      [] pid = PlainUrl -> <<"http://example", ".", "org/x">>
      [] OTHER -> <<pid>>

GetRecordUrl(base, metadata_prefix, test_id) ==
    <<base, "?verb=GetRecord", "&metadataPrefix=", metadata_prefix, "&identifier=">> \o test_id

\* the three identifier forms oai_check_record_url tries, in its order
record_candidates(base, pid) ==
    LET endpoint_root == netloc(base)
        pid_type == detect_identifier_schemes(pid)[1]
        oai_pid == pid_tokens(normalize_pid(pid, pid_type))
    IN  << <<"oai:", endpoint_root, ":">> \o oai_pid,
           <<pid_type, ":">> \o oai_pid,
           <<"oai:", endpoint_root, ":">>
               \o Slice(oai_pid, rfind(oai_pid, ".", Len(oai_pid)) + 1, Len(oai_pid)) >>

\* oai_check_record_url: the three GetRecord candidates are requested one after
\* the other and each answer without <error> assigns url_final; errs is the
\* set of requests (1..3) answered with an <error>.  '' is <<>>.
oai_check_record_url(base, metadata_prefix, pid, errs) ==
    LET c == record_candidates(base, pid)
        u1 == IF 1 \notin errs THEN GetRecordUrl(base, metadata_prefix, c[1]) ELSE <<>>
        u2 == IF 2 \notin errs THEN GetRecordUrl(base, metadata_prefix, c[2]) ELSE u1
        u3 == IF 3 \notin errs THEN GetRecordUrl(base, metadata_prefix, c[3]) ELSE u2
    IN  u3

\* the constructor is left by an exception: no term sequence was assigned
Faulted(exception) ==
    [fault |-> TRUE, exception |-> exception, metadata |-> NoneFrame, access_protocols |-> <<>>]

NoSourceError == "line 49: TypeError, len(None)"

UnreachableError == "line 1820: requests.get raises"

NoSchemeError == "line 37: IndexError, [0] of an empty scheme list"

AllCandidatesError == "line 1814: MissingSchema, requests.get('')"

NoContainerError == "line 41: AttributeError, None.findall"

declared_protocols_always(data) == <<"http", "oai-pmh">>

\* the last statement of the constructor
declared_protocols(data) == IF Len(data) > 0 THEN <<"http", "oai-pmh">> ELSE <<>>

\* Evaluator.__init__(item_id, oai_base) against a source that is reachable or
\* not (up), answers ListMetadataFormats with formats, answers the GetRecord
\* requests in errs with an <error>, and answers the chosen URL with reply
Evaluator_init(id, base, up, formats, errs, reply) ==
    IF base = None
    THEN Faulted(NoSourceError)
    ELSE IF ~up
    THEN Faulted(UnreachableError)
    ELSE IF Len(detect_identifier_schemes(id)) = 0
    THEN Faulted(NoSchemeError)
    ELSE IF oai_check_record_url(base, dc_prefix_of(formats), id, errs) = <<>>
    THEN Faulted(AllCandidatesError)
    ELSE IF reply = NoMetadataElement
    THEN Faulted(NoContainerError)
    ELSE LET data == frame_of(reply)
         IN  [ fault |-> FALSE,
               exception |-> "",
               metadata |-> Frame(data),
               access_protocols |-> declared_protocols(data) ]

ItemIds == {DoiSelf, PlainUrl, FreeText}

Init ==
    /\ item_id \in ItemIds
    /\ oai_base \in {None, Endpoint}
    /\ metadata = NoneFrame
    /\ access_protocols = <<>>
    /\ phase = "new"
    /\ live \in SUBSET ProbedUrls
    /\ result = NoResult
    /\ score = 0
    /\ view = NoView
    /\ request = NoRequest
    /\ record = <<>>

Construct ==
    /\ phase = "new"
    /\ \E up \in BOOLEAN, formats \in FormatReplies, errs \in SUBSET (1..3),
          reply \in Documents \cup {NoMetadataElement} :
          LET made == Evaluator_init(item_id, oai_base, up, formats, errs, reply)
          IN  /\ metadata' = made.metadata
              /\ access_protocols' = made.access_protocols
              /\ phase' = IF made.fault THEN "failed" ELSE "ready"
              /\ result' = IF made.fault
                           THEN [NoResult EXCEPT !.ind = "__init__", !.kind = "fault",
                                                 !.msg = Msg(made.exception)]
                           ELSE NoResult
              /\ record' = IF made.fault THEN <<>> ELSE reply
    /\ UNCHANGED <<item_id, oai_base, live, score, view, request>>

-----------------------------------------------------------------------------
(* What an indicator call gives back *)

Returned(points, msg) ==
    [kind |-> "ok", points |-> points, msg |-> msg, refs |-> 0, net |-> {}]

\* an exception leaves the method; refs is the value of the local counter of
\* rda_i3_02m at that moment (0 elsewhere)
Raised(refs) ==
    [kind |-> "fault", points |-> Whole(0), msg |-> <<>>, refs |-> refs, net |-> {}]

\* the outcome r of a call, with the answers the environment gave during it
Heard(r, net) == [r EXCEPT !.net = net]

\* str(x) of a term sequence used as a format argument
Str(tokens) == IF Len(tokens) = 1 THEN tokens[1] ELSE ""

RECURSIVE SumSeq(_)
SumSeq(q) == IF Len(q) = 0 THEN 0 ELSE q[1] + SumSeq(Tail(q))

-----------------------------------------------------------------------------
(* api.utils: the helpers the indicators call *)

\* scheme detection of the identifier service: never fails, [] when nothing
\* matches or the text is absent
detectSchemes(raw) == IF raw = None THEN <<>> ELSE detect_identifier_schemes(raw)

\* the type column of a row without a detected scheme
NoType == <<None>>

\* ut.find_ids_in_metadata(metadata, elements): one row [identifier, type] per
\* term whose element is in elements, type null when no scheme is detected
find_ids_in_metadata(md, elements) ==
    LET IsId(row) == row.element \in elements
        picked == SelectSeq(md.rows, IsId)
    IN  [ i \in 1..Len(picked) |->
            [ identifier |-> picked[i].text_value,
              type |-> IF detectSchemes(picked[i].text_value) = <<>>
                       THEN NoType
                       ELSE detectSchemes(picked[i].text_value) ] ]

\* the matching rule of the term-presence checker: the element equals exactly
\* and the required qualifier is null or equals the entry's qualifier
term_matches(row, req) ==
    /\ row.element = req.term
    /\ (req.qualifier = None \/ req.qualifier = row.qualifier)

\* ut.check_metadata_terms(metadata, terms): terms with its found column
check_metadata_terms(md, terms) ==
    [ i \in 1..Len(terms) |->
        [ term |-> terms[i].term,
          qualifier |-> terms[i].qualifier,
          found |-> IF \E j \in 1..Len(md.rows) : term_matches(md.rows[j], terms[i])
                    THEN 1 ELSE 0 ] ]

Required(term, qualifier) == [term |-> <<term>>, qualifier |-> qualifier]

-----------------------------------------------------------------------------
(* Findable *)

notnull(id_list) ==
    LET Typed(e) == e.type # NoType
    IN  SelectSeq(id_list, Typed)

id_fragments(id_list) ==
    [ i \in 1..Len(id_list) |-> <<"| %s: %s | ", id_list[i].identifier>> \o id_list[i].type ]

rda_f1_01m(md) ==
    LET id_list == find_ids_in_metadata(md, { <<"identifier">> })
    IN  IF Len(id_list) > 0
        THEN IF Len(notnull(id_list)) > 0
             THEN Returned(Whole(100),
                    Msg("Your (meta)data is identified with this identifier(s) and type(s): ")
                      \o id_fragments(notnull(id_list)))
             ELSE Raised(0)      \* "for i, e in id_list" unpacks a column name
        ELSE Returned(Whole(0), Msg("Your (meta)data is not identified by persistent identifiers:"))

rda_f1_01d(md) == rda_f1_01m(md)

\* list.remove('url')
remove_url(type) ==
    LET first == CHOOSE i \in 1..Len(type) : type[i] = "url" /\ \A j \in 1..(i - 1) : type[j] # "url"
    IN  SubSeq(type, 1, first - 1) \o SubSeq(type, first + 1, Len(type))

has_url(type) == \E i \in 1..Len(type) : type[i] = "url"

\* the loop of rda_f1_02m over the typed rows, from row i with (points, msg)
RECURSIVE f1_02m_loop(_, _, _, _)
f1_02m_loop(rows, i, points, msg) ==
    IF i > Len(rows) THEN Returned(points, msg)
    ELSE IF has_url(rows[i].type)
    THEN LET type == remove_url(rows[i].type)
         IN  IF Len(type) > 0
             THEN f1_02m_loop(rows, i + 1, Whole(100),
                    Msg("Your (meta)data is identified with this identifier(s) and type(s): ")
                      \o << <<"| %s: %s | ", rows[i].identifier>> \o type >>)
             ELSE f1_02m_loop(rows, i + 1, points,
                    << <<"Your (meta)data is identified only by URL identifiers:| %s: %s | ",
                         rows[i].identifier>> \o type >>)
    ELSE f1_02m_loop(rows, i + 1, points, msg)

rda_f1_02m(md) ==
    LET id_list == find_ids_in_metadata(md, { <<"identifier">> })
    IN  IF Len(id_list) > 0
        THEN IF Len(notnull(id_list)) > 0
             THEN f1_02m_loop(notnull(id_list), 1, Whole(0), <<>>)
             ELSE Raised(0)      \* "for i, e in id_list" unpacks a column name
        ELSE Returned(Whole(0),
               Msg("Your (meta)data is not identified by persistent & unique identifiers:"))

rda_f1_02d(md) == rda_f1_02m(md)

DublinCoreTerms_without_subject ==
    << Required("contributor", None), Required("date", None),
       Required("description", None), Required("identifier", None),
       Required("publisher", None), Required("rights", None),
       Required("title", None) >>

DublinCoreTerms ==
    << Required("contributor", None), Required("date", None),
       Required("description", None), Required("identifier", None),
       Required("publisher", None), Required("rights", None),
       Required("title", None), Required("subject", None) >>

found_column(md_term_list) == [ i \in 1..Len(md_term_list) |-> md_term_list[i].found ]

missing_fragments(md_term_list) ==
    LET Missing(e) == e.found = 0
        missing == SelectSeq(md_term_list, Missing)
    IN  [ i \in 1..Len(missing) |->
            <<"| term: %s, qualifier: %s", Str(missing[i].term), missing[i].qualifier>> ]

\* the part rda_f2_01m_generic and rda_f2_01m_disciplinar have in common
coverage(md, terms_quali, msg) ==
    LET md_term_list == check_metadata_terms(md, terms_quali)
        n == Len(md_term_list)
        points == Rat(100 * (n - (n - SumSeq(found_column(md_term_list)))), n)
    IN  IF RatEq(points, 100)
        THEN Returned(points, msg \o Msg("... All mandatory terms included"))
        ELSE Returned(points, msg \o Msg("... Missing terms:") \o missing_fragments(md_term_list))

rda_f2_01m_generic(md) == coverage(md, DublinCoreTerms, Msg("Checking Dublin Core"))

rda_f2_01m_disciplinar(md) ==
    coverage(md, DublinCoreTerms, Msg("Checking Dublin Core as multidisciplinar schema"))

rda_f2_01m_sum(md) ==
    LET g == rda_f2_01m_generic(md)
        d == rda_f2_01m_disciplinar(md)
    IN  Returned(RatAdd(g.points, d.points), g.msg \o Msg(" | ") \o d.msg)

rda_f2_01m(md) ==
    LET g == rda_f2_01m_generic(md)
        d == rda_f2_01m_disciplinar(md)
    IN  Returned(RatDiv(RatAdd(g.points, d.points), 2), g.msg \o Msg(" | ") \o d.msg)

rda_f3_01m(md) ==
    LET id_list == find_ids_in_metadata(md, { <<"identifier">> })
    IN  IF Len(id_list) > 0
        THEN IF Len(notnull(id_list)) > 0
             THEN Returned(Whole(100),
                    Msg("Your data is identified with this identifier(s) and type(s): ")
                      \o id_fragments(notnull(id_list)))
             ELSE Returned(Whole(0),
                    Msg("Your data is identified by non-persistent identifiers: ")
                      \o id_fragments(id_list))
        ELSE Returned(Whole(0), Msg("Your data is not identified by persistent identifiers:"))

rda_f4_01m_ge_zero(md) ==
    IF Len(md.rows) >= 0
    THEN Returned(Whole(100), Msg("Your digital object is available via OAI-PMH harvesting protocol"))
    ELSE Returned(Whole(0),
           Msg("Your digital object is not available via OAI-PMH. Please, contact to DIGITAL.CSIC admins"))

rda_f4_01m(md) ==
    IF Len(md.rows) > 0
    THEN Returned(Whole(100), Msg("Your digital object is available via OAI-PMH harvesting protocol"))
    ELSE Returned(Whole(0),
           Msg("Your digital object is not available via OAI-PMH. Please, contact to DIGITAL.CSIC admins"))

-----------------------------------------------------------------------------
(* Accessible *)

\* a position of a returned tuple: a number or a text
Num(p) == [t |-> "num", num |-> p, txt |-> <<>>]

Txt(m) == [t |-> "str", num |-> Whole(0), txt |-> m]

\* x == k of Python for a number k: False when x is a text
PyEq(x, k) == x.t = "num" /\ RatEq(x.num, k)

\* '%s' % x
Render(x) == IF x.t = "num" THEN <<ToString(x.num.num)>> ELSE <<"text">>

DataFile == "/bitstream/data.csv"

\* ut.find_dataset_file(metadata, url, data_formats): (points, msg, data_files),
\* 100 and the files when the landing page links a file of a known format
find_dataset_file(file_found) ==
    IF file_found
    THEN << Num(Whole(100)), Txt(Msg("Potential datasets files found")), <<DataFile>> >>
    ELSE << Num(Whole(0)), Txt(Msg("No dataset files found")), <<>> >>

\* ut.metadata_human_accessibility(metadata, url): (points, msg)
metadata_human_accessibility(human_points) ==
    << Whole(human_points), Msg("Metadata terms found in the landing page") >>

HumanScores == {0, 100}

AccessTerms == << Required("access", ""), Required("rights", "") >>

access_fragments(md_term_list) ==
    LET Found(e) == e.found = 1
        found == SelectSeq(md_term_list, Found)
    IN  [ i \in 1..Len(found) |->
            <<"| Metadata: %s.%s: ... %s", Str(found[i].term), found[i].qualifier>> ]

rda_a1_01m(md, id, file_found) ==
    LET md_term_list == check_metadata_terms(md, AccessTerms)
        some == SumSeq(found_column(md_term_list)) > 0
        msg == IF some THEN Msg("Checking Dublin Core") \o access_fragments(md_term_list)
               ELSE Msg("Checking Dublin Core")
        points == IF some THEN 100 ELSE 0
        reply == find_dataset_file(file_found)
        msg_2 == reply[1]
        points_2 == reply[2]
    IN  IF Len(detect_identifier_schemes(id)) = 0
        THEN Raised(0)           \* [0] of an empty list
        ELSE IF PyEq(points_2, 100) /\ points = 100
        THEN Returned(Whole(points), msg \o Fmt(" \n Data can be accessed manually | %s", Render(msg_2)))
        ELSE IF PyEq(points_2, 0) /\ points = 100
        THEN Returned(Whole(points), msg \o Fmt(" \n Data can not be accessed manually | %s", Render(msg_2)))
        ELSE IF PyEq(points_2, 100) /\ points = 0
        THEN Returned(Whole(100), msg \o Fmt(" \n Data can be accessed manually | %s", Render(msg_2)))
        ELSE IF PyEq(points_2, 0) /\ points = 0
        THEN Returned(Whole(points), msg \o Msg("No access information can be found in metadata"))
        ELSE Returned(Whole(points), msg)

rda_a1_02m(md, id, human_points) ==
    IF Len(detect_identifier_schemes(id)) = 0
    THEN Raised(0)               \* [0] of an empty list
    ELSE LET reply == metadata_human_accessibility(human_points)
         IN  Returned(reply[1], reply[2])

rda_a1_02d(md) ==
    LET md_term_list == check_metadata_terms(md, AccessTerms)
    IN  IF SumSeq(found_column(md_term_list)) > 0
        THEN Raised(0)           \* the name metadata is not defined
        ELSE Returned(Whole(0), Msg("Checking Dublin Core"))

rda_a1_03m(md, id, human_points) ==
    IF Len(detect_identifier_schemes(id)) = 0
    THEN Raised(0)               \* [0] of an empty list
    ELSE LET reply == metadata_human_accessibility(human_points)
         IN  Returned(reply[1], reply[2] \o Msg(" \nMetadata found via Identifier"))

\* heads is the set of HEAD requests (1: landing_url + f, 2: f) answered with
\* 200; the others answer another status or raise, which is caught
rda_a1_03d(md, id, file_found, heads) ==
    LET reply == find_dataset_file(file_found)
        msg == reply[2]
        data_files == reply[3]
        headers == IF Len(data_files) > 0 THEN heads ELSE {}
    IN  IF Len(detect_identifier_schemes(id)) = 0
        THEN Raised(0)           \* [0] of an empty list
        ELSE IF msg.t # "str"
        THEN Raised(0)           \* a number + str
        ELSE IF Cardinality(headers) > 0
        THEN Returned(Whole(100), msg.txt \o Msg("\n Files can be downloaded: %s"))
        ELSE Returned(Whole(0), msg.txt \o Msg("\n Files can not be downloaded"))

rda_a1_04m(protocols) ==
    IF Len(protocols) > 0
    THEN Returned(Whole(100), Fmt("Metadata can be accessed through these protocols: %s", protocols))
    ELSE Returned(Whole(0), Msg("No protocols found to access metadata"))

\* a caller of rda_a1_03d that replaces its message
relabel(r, yes, no) ==
    IF r.kind = "fault" THEN r
    ELSE IF RatEq(r.points, 100) THEN Returned(r.points, Msg(yes))
    ELSE Returned(r.points, Msg(no))

rda_a1_04d(md, id, file_found, heads) ==
    relabel(rda_a1_03d(md, id, file_found, heads),
            "Files can be downloaded using HTTP-GET protocol",
            "No protocol for downloading data can be found")

rda_a1_05d == Returned(Whole(0), Msg("OAI-PMH does not support machine-actionable access to data"))

rda_a1_1_01m_always_free(protocols) ==
    Returned(Whole(100), Fmt("Metadata is accessible using these free protocols: %s", protocols))

rda_a1_1_01m(protocols) ==
    IF Len(protocols) > 0
    THEN Returned(Whole(100), Fmt("Metadata is accessible using these free protocols: %s", protocols))
    ELSE Returned(Whole(0), Msg("Metadata can not be accessed via free protocols"))

rda_a1_1_01d(md, id, file_found, heads) ==
    relabel(rda_a1_03d(md, id, file_found, heads),
            "Files can be downloaded using HTTP-GET FREE protocol",
            "No FREE protocol for downloading data can be found")

rda_a1_2_01d ==
    Returned(Whole(0), Msg("OAI-PMH is a open protocol without any Authorization or Authentication required"))

rda_a2_01m ==
    Returned(Whole(50), Msg("Preservation policy depends on the authority where this Digital Object is stored"))

-----------------------------------------------------------------------------
(* Interoperable *)

\* Evaluator.check_url(url): True iff the GET answers 200; a value requests
\* does not accept as a URL, a network error or another status give False
check_url(url, answering) == url \in WellFormedUrls /\ url \in answering

rda_i1_01m(md) ==
    IF Len(md.rows) > 0
    THEN Returned(Whole(100), Msg("Metadata using interoperable representation (XML)"))
    ELSE Returned(Whole(0), Msg("Metadata IS NOT using interoperable representation (XML)"))

rda_i1_01d ==
    Returned(Whole(0),
      Msg("The digital object is not in an accepted standard format. If you think the format should be accepted, please contact DIGITAL.CSIC"))

rda_i1_02m_more_than_one(md) ==
    IF Len(md.rows) > 1
    THEN Returned(Whole(100), Msg("Metadata can be extracted using machine-actionable features (XML Metadata)"))
    ELSE Returned(Whole(0), Msg("Metadata CAN NOT be extracted using machine-actionable features"))

rda_i1_02m(md) ==
    IF Len(md.rows) > 0
    THEN Returned(Whole(100), Msg("Metadata can be extracted using machine-actionable features (XML Metadata)"))
    ELSE Returned(Whole(0), Msg("Metadata CAN NOT be extracted using machine-actionable features"))

rda_i1_02d ==
    Returned(Whole(0),
      Msg("OAI-PMH does not currently provides an automatic protocol to retrieve the digital object"))

\* Series.unique(): the values in order of first appearance
RECURSIVE unique(_, _)
unique(q, seen) ==
    IF Len(q) = 0 THEN seen
    ELSE IF \E i \in 1..Len(seen) : seen[i] = q[1]
    THEN unique(Tail(q), seen)
    ELSE unique(Tail(q), Append(seen, q[1]))

\* row.replace('{','').replace('}','')
strip_braces(schema) ==
    LET NotBrace(t) == t \notin {"{", "}"}
    IN  SelectSeq(schema, NotBrace)

\* the loop of rda_i2_01m over namespace_list, from entry i
RECURSIVE i2_01m_loop(_, _, _, _, _)
i2_01m_loop(namespace_list, i, points, schemas, answering) ==
    IF i > Len(namespace_list) THEN [points |-> points, schemas |-> schemas]
    ELSE LET row == Str(strip_braces(namespace_list[i]))
         IN  i2_01m_loop(namespace_list, i + 1,
                IF check_url(row, answering)
                THEN float_add_share(points, Len(namespace_list))
                ELSE points,
                schemas \o <<" ", row>>, answering)

rda_i2_01m(md, answering) ==
    LET namespace_list == unique([ i \in 1..Len(md.rows) |-> md.rows[i].metadata_schema ], <<>>)
        done == i2_01m_loop(namespace_list, 1, Whole(0), <<>>, answering)
    IN  IF RatEq(done.points, 0)
        THEN Returned(done.points,
               Fmt("The metadata standard documentation can not be retrieved. Schema(s): %s", done.schemas))
        ELSE IF RatLt(done.points, 100)
        THEN Returned(done.points,
               Fmt("Some of the metadata schemas used are not accessible via persistent identifier. Schema(s): %s",
                   done.schemas))
        ELSE Returned(done.points,
               Msg("The metadata standard is well-document within a persistent identifier"))

rda_i2_01d(md, answering) == rda_i2_01m(md, answering)

count_element(md, name) ==
    LET Is(row) == row.element = <<name>>
    IN  Len(SelectSeq(md.rows, Is))

rda_i3_01m_relations_only(md) ==
    LET pids == count_element(md, "relation")
    IN  IF pids > 0
        THEN Returned(Whole(100),
               Fmt("Your (meta)data includes %i references to other digital objects and %i references for contributors. Do you think you can improve that information?",
                   <<ToString(pids), "0">>))
        ELSE Returned(Whole(0),
               Msg("Your (meta)data does not include references to other digital objects or contributors. If your digital object is isolated, you can consider this OK, but it is recommendable to include such as references"))

rda_i3_01m(md) ==
    LET orcids == count_element(md, "contributor")
        pids == count_element(md, "relation")
    IN  IF orcids > 0 \/ pids > 0
        THEN Returned(Whole(100),
               Fmt("Your (meta)data includes %i references to other digital objects and %i references for contributors. Do you think you can improve that information?",
                   <<ToString(pids), ToString(orcids)>>))
        ELSE Returned(Whole(0),
               Msg("Your (meta)data does not include references to other digital objects or contributors. If your digital object is isolated, you can consider this OK, but it is recommendable to include such as references"))

rda_i3_01d(md) == rda_i3_01m(md)

\* the comparison of rda_i3_02m for one row whose value has a detected scheme
is_reference(text_value, id, scheme) ==
    normalize_pid(text_value, scheme) # normalize_pid(id, scheme)

\* the loop of rda_i3_02m over the rows, from row i with references counted
RECURSIVE i3_02m_loop(_, _, _, _)
i3_02m_loop(md, id, i, references) ==
    IF i > Len(md.rows) THEN [fault |-> FALSE, references |-> references]
    ELSE LET text_value == md.rows[i].text_value
             identifiers_scheme == detect_identifier_schemes(text_value)
         IN  IF detect_raises(text_value)
             THEN [fault |-> TRUE, references |-> references]
             ELSE IF Len(identifiers_scheme) > 0
             THEN IF normalize_raises(id, identifiers_scheme[1])
                  THEN [fault |-> TRUE, references |-> references]
                  ELSE IF is_reference(text_value, id, identifiers_scheme[1])
                  \* references + 1, then str + list raises
                  THEN [fault |-> TRUE, references |-> references + 1]
                  ELSE i3_02m_loop(md, id, i + 1, references)
             ELSE i3_02m_loop(md, id, i + 1, references)

rda_i3_02m(md, id) ==
    LET done == i3_02m_loop(md, id, 1, 0)
    IN  IF done.fault THEN Raised(done.references)
        ELSE IF done.references > 0
        THEN [ Returned(Whole(100),
                 Fmt("Your (meta)data includes %i qualified references to other digital objects. Types: %s. Do you think you can improve that information?",
                     <<ToString(done.references)>>))
               EXCEPT !.refs = done.references ]
        ELSE Returned(Whole(0),
               Msg("Your (meta)data does not include qualified references to other digital objects or contributors. If your digital object is isolated, you can consider this OK, but it is recommendable to include such as references"))

rda_i3_02d(md, id) == rda_i3_02m(md, id)

rda_i3_03m(md) ==
    LET IsRelation(row) == row.element = <<"relation">>
        relations == SelectSeq(md.rows, IsRelation)
        qualifiers == [ i \in 1..Len(relations) |-> <<" %s", relations[i].text_value>> ]
    IN  IF qualifiers # <<>>
        THEN Returned(Whole(100),
               Msg("Your (meta)data is connected with the following relationships: %s") \o qualifiers)
        ELSE Returned(Whole(0),
               Msg("Your (meta)data does not include any relationship. If yoour digital object is isolated, this indicator is OK, but it is recommendable to include at least some contextual information"))

rda_i3_04m_by_element(md) == rda_i3_01m(md)

rda_i3_04m(md) == rda_i3_03m(md)

-----------------------------------------------------------------------------
(* Reusable *)

rda_r1_01m == Returned(Whole(50), Msg("Test not implemented"))

license_values(md) ==
    LET IsLicense(row) == row.element = <<"license">>
        rows == SelectSeq(md.rows, IsLicense)
    IN  [ i \in 1..Len(rows) |-> rows[i].text_value ]

rda_r1_1_01m(md) ==
    IF Len(license_values(md)) > 0
    THEN Returned(Whole(100), Msg("Indicator OK. Your digital object includes license information"))
    ELSE Returned(Whole(0), Msg("You should include information about the license."))

\* row[0] of a string of the model
first_char(text) ==
    CASE text \in {PlainUrl, DoiSelfUrl, Endpoint} -> "h"
      [] text \in {DoiSelf, DoiOther} -> "1"
      [] OTHER -> "f"

\* the part rda_r1_1_02m and rda_r1_1_03m have in common: lic_ok is the answer
\* for the last license, and None[0] raises
license_standard(md, answering) ==
    LET license == license_values(md)
    IN  IF \E i \in 1..Len(license) : license[i] = None
        THEN Raised(0)
        ELSE IF Len(license) > 0 /\ check_url(first_char(license[Len(license)]), answering)
        THEN Returned(Whole(100), Msg("Your license refers to a standard reuse license"))
        ELSE Returned(Whole(0),
               Msg("Your license is NOT included or DOES NOT refer to a standard reuse license"))

rda_r1_1_02m(md, answering) == license_standard(md, answering)

rda_r1_1_03m(md, answering) == license_standard(md, answering)

CommunityMsg ==
    Msg("Currently, this tool does not include community-bsed schemas. If you need to include yours, please contact.")

rda_r1_2_01m == Returned(Whole(0), CommunityMsg)

rda_r1_2_02m == Returned(Whole(0), CommunityMsg)

rda_r1_3_01m == Returned(Whole(0), CommunityMsg)

rda_r1_3_01d ==
    Returned(Whole(0),
      Msg("Your data format does not complies with your community standards. If you think this is wrong, please, contact us to include your format."))

rda_r1_3_02m == Returned(Whole(0), CommunityMsg)

rda_r1_3_02d_not_implemented == Returned(Whole(50), Msg("Test not implemented"))

rda_r1_3_02d == Returned(Whole(0), CommunityMsg)

-----------------------------------------------------------------------------
(* The indicator calls on a constructed Evaluator *)

\* the outcome r of the method called name, as its caller holds it
Outcome(name, r) ==
    [ind |-> name, kind |-> r.kind, points |-> r.points, msg |-> r.msg,
     refs |-> r.refs, net |-> r.net]

Call_dropping_protocols(name, r) ==
    /\ phase = "ready"
    /\ result = NoResult
    /\ result' = Outcome(name, r)
    /\ request = NoRequest
    /\ access_protocols' = <<>>
    /\ UNCHANGED <<item_id, oai_base, metadata, phase, live, score, view, request, record>>

\* a call of the method called name that ends as r, made when the caller holds
\* no pending outcome; no field of the object is assigned by an indicator
Call(name, r) ==
    /\ phase = "ready"
    /\ result = NoResult
    /\ result' = Outcome(name, r)
    /\ request = NoRequest
    /\ UNCHANGED <<item_id, oai_base, metadata, access_protocols, phase, live, score, view,
                   request, record>>

\* the caller takes the outcome of the call; the next call may follow
Return ==
    /\ phase = "ready"
    /\ result # NoResult
    /\ result' = NoResult
    /\ request' = NoRequest
    /\ UNCHANGED <<item_id, oai_base, metadata, access_protocols, phase, live, score, view,
                   record>>

Indicators ==
    { "rda_f1_01m", "rda_f1_01d", "rda_f1_02m", "rda_f1_02d",
      "rda_f2_01m", "rda_f2_01m_generic", "rda_f2_01m_disciplinar", "rda_f3_01m",
      "rda_f4_01m", "rda_a1_01m", "rda_a1_02m", "rda_a1_02d",
      "rda_a1_03m", "rda_a1_03d", "rda_a1_04m", "rda_a1_04d",
      "rda_a1_05d", "rda_a1_1_01m", "rda_a1_1_01d", "rda_a1_2_01d",
      "rda_a2_01m", "rda_i1_01m", "rda_i1_01d", "rda_i1_02m",
      "rda_i1_02d", "rda_i2_01m", "rda_i2_01d", "rda_i3_01m",
      "rda_i3_01d", "rda_i3_02m", "rda_i3_02d", "rda_i3_03m",
      "rda_i3_04m", "rda_r1_01m", "rda_r1_1_01m", "rda_r1_1_02m",
      "rda_r1_1_03m", "rda_r1_2_01m", "rda_r1_2_02m", "rda_r1_3_01m",
      "rda_r1_3_01d", "rda_r1_3_02m", "rda_r1_3_02d" }

Next ==
    \/ Construct
    \/ Call("rda_f1_01m", rda_f1_01m(metadata))
    \/ Call("rda_f1_01d", rda_f1_01d(metadata))
    \/ Call("rda_f1_02m", rda_f1_02m(metadata))
    \/ Call("rda_f1_02d", rda_f1_02d(metadata))
    \/ Call("rda_f2_01m", rda_f2_01m(metadata))
    \/ Call("rda_f2_01m_generic", rda_f2_01m_generic(metadata))
    \/ Call("rda_f2_01m_disciplinar", rda_f2_01m_disciplinar(metadata))
    \/ Call("rda_f3_01m", rda_f3_01m(metadata))
    \/ Call("rda_f4_01m", rda_f4_01m(metadata))
    \/ \E file_found \in BOOLEAN :
          Call("rda_a1_01m", Heard(rda_a1_01m(metadata, item_id, file_found),
                                   IF file_found THEN {DataFile} ELSE {}))
    \/ \E human_points \in HumanScores : Call("rda_a1_02m", rda_a1_02m(metadata, item_id, human_points))
    \/ Call("rda_a1_02d", rda_a1_02d(metadata))
    \/ \E human_points \in HumanScores : Call("rda_a1_03m", rda_a1_03m(metadata, item_id, human_points))
    \/ \E file_found \in BOOLEAN, heads \in SUBSET (1..2) : Call("rda_a1_03d", rda_a1_03d(metadata, item_id, file_found, heads))
    \/ Call("rda_a1_04m", rda_a1_04m(access_protocols))
    \/ \E file_found \in BOOLEAN, heads \in SUBSET (1..2) : Call("rda_a1_04d", rda_a1_04d(metadata, item_id, file_found, heads))
    \/ Call("rda_a1_05d", rda_a1_05d)
    \/ Call("rda_a1_1_01m", rda_a1_1_01m(access_protocols))
    \/ \E file_found \in BOOLEAN, heads \in SUBSET (1..2) : Call("rda_a1_1_01d", rda_a1_1_01d(metadata, item_id, file_found, heads))
    \/ Call("rda_a1_2_01d", rda_a1_2_01d)
    \/ Call("rda_a2_01m", rda_a2_01m)
    \/ Call("rda_i1_01m", rda_i1_01m(metadata))
    \/ Call("rda_i1_01d", rda_i1_01d)
    \/ Call("rda_i1_02m", rda_i1_02m(metadata))
    \/ Call("rda_i1_02d", rda_i1_02d)
    \/ Call("rda_i2_01m", rda_i2_01m(metadata, live))
    \/ Call("rda_i2_01d", rda_i2_01d(metadata, live))
    \/ Call("rda_i3_01m", rda_i3_01m(metadata))
    \/ Call("rda_i3_01d", rda_i3_01d(metadata))
    \/ Call("rda_i3_02m", rda_i3_02m(metadata, item_id))
    \/ Call("rda_i3_02d", rda_i3_02d(metadata, item_id))
    \/ Call("rda_i3_03m", rda_i3_03m(metadata))
    \/ Call("rda_i3_04m", rda_i3_04m(metadata))
    \/ Call("rda_r1_01m", rda_r1_01m)
    \/ Call("rda_r1_1_01m", rda_r1_1_01m(metadata))
    \/ Call("rda_r1_1_02m", rda_r1_1_02m(metadata, live))
    \/ Call("rda_r1_1_03m", rda_r1_1_03m(metadata, live))
    \/ Call("rda_r1_2_01m", rda_r1_2_01m)
    \/ Call("rda_r1_2_02m", rda_r1_2_02m)
    \/ Call("rda_r1_3_01m", rda_r1_3_01m)
    \/ Call("rda_r1_3_01d", rda_r1_3_01d)
    \/ Call("rda_r1_3_02m", rda_r1_3_02m)
    \/ Call("rda_r1_3_02d", rda_r1_3_02d)
    \/ Return

Spec == Init /\ [][Next]_vars

-----------------------------------------------------------------------------
(* Description coverage on records built from the Dublin Core elements *)

\* one node per element name; "Title" differs from "title" only in case
CoverageNodes ==
    << Node(QualifiedTag(NsDC, "contributor"), FreeText),
       Node(QualifiedTag(NsDC, "date"), FreeText),
       Node(QualifiedTag(NsDC, "description"), FreeText),
       Node(QualifiedTag(NsDC, "identifier"), DoiSelf),
       Node(QualifiedTag(NsDC, "publisher"), FreeText),
       Node(QualifiedTag(NsDC, "rights"), FreeText),
       Node(QualifiedTag(NsDC, "title"), FreeText),
       Node(QualifiedTag(NsDC, "subject"), None),
       Node(QualifiedTag(NsDC, "Title"), FreeText),
       Node(QualifiedTag(NsDC, "relation"), DoiOther) >>

\* nodes that follow them: a repeated element, a bare tag, the wrapper
ExtraNodes ==
    { Node(QualifiedTag(NsDC, "title"), FreeText),
      Node(BareTag("subject"), FreeText),
      Node(QualifiedTag(NsOAI, "dc"), None) }

\* the entries of q at the positions in keep, in their order
RECURSIVE Keep(_, _, _)
Keep(q, keep, i) ==
    IF i > Len(q) THEN <<>>
    ELSE IF i \in keep THEN <<q[i]>> \o Keep(q, keep, i + 1)
    ELSE Keep(q, keep, i + 1)

CoverageDocuments ==
    { Keep(CoverageNodes, keep, 1) \o extra :
        keep \in SUBSET (1..Len(CoverageNodes)), extra \in SeqsUpTo(ExtraNodes, MaxExtra) }

\* an Evaluator right after its construction from one of these records
CoverageInit ==
    /\ item_id = DoiSelf
    /\ oai_base = Endpoint
    /\ \E reply \in CoverageDocuments :
          LET made == Evaluator_init(item_id, oai_base, TRUE, [oai_dc |-> NsOAI], {}, reply)
          IN  /\ metadata = made.metadata
              /\ access_protocols = made.access_protocols
              /\ record = reply
    /\ phase = "ready"
    /\ live = {}
    /\ result = NoResult
    /\ score = 0
    /\ view = NoView
    /\ request = NoRequest

CoverageNext ==
    \/ Call("rda_f2_01m_generic", rda_f2_01m_generic(metadata))
    \/ Call("rda_f2_01m_disciplinar", rda_f2_01m_disciplinar(metadata))
    \/ Call("rda_f2_01m", rda_f2_01m(metadata))
    \/ Return

SpecCoverage == CoverageInit /\ [][CoverageNext]_vars

-----------------------------------------------------------------------------
(* Properties of the indicator results *)

InRange(points) == ~RatLt(points, 0) /\ ~RatGt(points, 100)

(* C3: every indicator method returns a score that is an integer in 0..100, *)
(* the coverage scores (k of 8 terms), the averaged richness score and the  *)
(* vocabulary score (k of n schemas) included.                              *)
C3_ScoreIsIntegerInRange ==
    (result.ind \in Indicators /\ result.kind = "ok") =>
        (IsInteger(result.points) /\ InRange(result.points))

(* C4: every indicator method returns exactly one (score, message) pair and *)
(* no fault escapes it, whatever the terms, the subject identifier and the  *)
(* network answers are.                                                     *)
C4_NoFaultEscapes ==
    result.ind \in Indicators => result.kind = "ok"

\* the indicators that read the term sequence and score what they find in it
TermDependent ==
    { "rda_f1_01m", "rda_f1_01d", "rda_f1_02m", "rda_f1_02d", "rda_f2_01m",
      "rda_f2_01m_generic", "rda_f2_01m_disciplinar", "rda_f3_01m", "rda_f4_01m",
      "rda_a1_01m", "rda_a1_02d", "rda_i1_01m", "rda_i1_02m", "rda_i2_01m", "rda_i2_01d",
      "rda_i3_01m", "rda_i3_01d", "rda_i3_02m", "rda_i3_02d", "rda_i3_03m", "rda_i3_04m",
      "rda_r1_1_01m", "rda_r1_1_02m", "rda_r1_1_03m" }

C6_HarvestFailureLeavesEmptyTerms ==
    /\ (phase # "new" /\ oai_base = None) =>
          (phase = "ready" /\ ~metadata.isNone /\ Len(metadata.rows) = 0)
    /\ ~(phase = "failed" /\ result.msg = Msg(AllCandidatesError))
    /\ (phase = "ready" => ~metadata.isNone)

\* the required Dublin Core element names that have an entry in the terms
PresentRequired(md) ==
    { name \in {"contributor", "date", "description", "identifier", "publisher",
                "rights", "title", "subject"} :
        \E j \in 1..Len(md.rows) : md.rows[j].element = <<name>> }

MissingRequired(md) ==
    {"contributor", "date", "description", "identifier", "publisher", "rights", "title",
     "subject"} \ PresentRequired(md)

\* the terms a coverage message names after its two leading texts
NamedInMessage(msg) == { msg[k][2] : k \in 3..Len(msg) }

(* C7: the score of rda_f2_01m_generic is 100 iff each of the 8 required    *)
(* elements has an entry with exactly that element name; otherwise it is    *)
(* below 100 and the message lists exactly the missing terms.               *)
C7_FullCoverageIffAllPresent ==
    (phase = "ready" /\ result.ind = "rda_f2_01m_generic") =>
        /\ result.kind = "ok"
        /\ (RatEq(result.points, 100) <=> MissingRequired(metadata) = {})
        /\ (MissingRequired(metadata) # {} =>
              /\ RatLt(result.points, 100)
              /\ NamedInMessage(result.msg) = MissingRequired(metadata)
              /\ Len(result.msg) = 2 + Cardinality(MissingRequired(metadata)))

C7_Witness ==
    /\ phase = "ready"
    /\ result.ind = "rda_f2_01m_generic"
    /\ MissingRequired(metadata) = {}
    /\ RatEq(result.points, 100)

(* C8: rda_f2_01m returns the average of the generic and the disciplinary   *)
(* coverage scores, which equals the generic score (100 * k / 8 for k of    *)
(* the 8 required elements present), and 100 when all 8 are present.        *)
C8_RichnessEqualsGeneric ==
    (phase = "ready" /\ result.ind = "rda_f2_01m") =>
        /\ result.kind = "ok"
        /\ result.points = Rat(100 * Cardinality(PresentRequired(metadata)), 8)
        /\ result.points = rda_f2_01m_generic(metadata).points
        /\ (MissingRequired(metadata) = {} => RatEq(result.points, 100))

C8_Witness ==
    /\ phase = "ready"
    /\ result.ind = "rda_f2_01m"
    /\ MissingRequired(metadata) = {}
    /\ RatEq(result.points, 100)

\* a term whose value carries at least one identifier scheme
IdentifierValued(row) ==
    row.text_value # None /\ detect_identifier_schemes(row.text_value) # <<>>

SchemeSet(val) ==
    { detect_identifier_schemes(val)[i] : i \in DOMAIN detect_identifier_schemes(val) }

\* a term whose value and the subject identifier have the same canonical
\* string in a scheme they share
SelfReference(row, id) ==
    \E scheme \in SchemeSet(row.text_value) \cap SchemeSet(id) :
        normalize_pid(row.text_value, scheme) = normalize_pid(id, scheme)

(* C9: in rda_i3_02m a self-reference is never counted: for every term      *)
(* sequence whose identifier-valued terms are all self-references (stated   *)
(* for the sequences that hold at least one) the reference count is 0 and   *)
(* the score is 0.                                                          *)
C9_SelfReferencesScoreZero ==
    ( /\ phase = "ready"
      /\ result.ind = "rda_i3_02m"
      /\ \E j \in 1..Len(metadata.rows) : IdentifierValued(metadata.rows[j])
      /\ \A j \in 1..Len(metadata.rows) :
            IdentifierValued(metadata.rows[j]) => SelfReference(metadata.rows[j], item_id) )
    => (result.kind = "ok" /\ result.refs = 0 /\ RatEq(result.points, 0))

\* the number of terms the claim counts: identifier-valued and not a
\* self-reference
ExternalReferences(md, id) ==
    Cardinality({ j \in 1..Len(md.rows) :
                    IdentifierValued(md.rows[j]) /\ ~SelfReference(md.rows[j], id) })

(* C10: in rda_i3_02m each identifier-valued term that differs from the     *)
(* subject identifier adds exactly one to the count, a term without a       *)
(* detected scheme (absent text included) adds nothing, and the result is   *)
(* score 100 with the count in the message whenever the count is above 0.   *)
C10_CountsExternalReferences ==
    (phase = "ready" /\ result.ind = "rda_i3_02m") =>
        /\ result.kind = "ok"
        /\ result.refs = ExternalReferences(metadata, item_id)
        /\ (ExternalReferences(metadata, item_id) > 0 =>
              /\ RatEq(result.points, 100)
              /\ result.msg[1][2] = ToString(ExternalReferences(metadata, item_id)))

\* a license value that, requested as a URL, is answered with 200
Resolvable(text, answering) == text \in WellFormedUrls /\ text \in answering

(* C11: rda_r1_1_02m returns 100 if the term sequence has a license term    *)
(* whose full value, requested as a URL, is answered with HTTP 200, and 0   *)
(* when there is no license term or the license URL does not resolve.       *)
C11_LicenseStandardness ==
    (phase = "ready" /\ result.ind = "rda_r1_1_02m") =>
        /\ result.kind = "ok"
        /\ ((\E j \in 1..Len(metadata.rows) :
                /\ metadata.rows[j].element = <<"license">>
                /\ Resolvable(metadata.rows[j].text_value, live))
              => RatEq(result.points, 100))
        /\ ((\A j \in 1..Len(metadata.rows) :
                metadata.rows[j].element = <<"license">>
                  => ~Resolvable(metadata.rows[j].text_value, live))
              => RatEq(result.points, 0))

\* the first signal: an access or rights term is present in the metadata
AccessTermPresent(md) ==
    \E j \in 1..Len(md.rows) : md.rows[j].element \in { <<"access">>, <<"rights">> }

(* C12: rda_a1_01m combines its two signals with OR: it returns 100 when an *)
(* access/rights term is present, 100 when find_dataset_file located a data *)
(* file even without such a term, and 0 only when both are absent; stated   *)
(* for the calls that return on a non-empty term sequence.                  *)
C12_RetrievabilityIsOr ==
    ( /\ phase = "ready"
      /\ result.ind = "rda_a1_01m"
      /\ result.kind = "ok"
      /\ Len(metadata.rows) > 0 ) =>
        /\ (AccessTermPresent(metadata) => RatEq(result.points, 100))
        /\ (DataFile \in result.net => RatEq(result.points, 100))
        /\ (~AccessTermPresent(metadata) /\ DataFile \notin result.net
              => RatEq(result.points, 0))

-----------------------------------------------------------------------------
(* Vocabulary FAIRness on records that mix up to six namespaces *)

\* one node per namespace, then a second node of the first namespace
VocabularyNodes ==
    [ i \in 1..Len(VocabularyNamespaces) |->
        Node(QualifiedTag(VocabularyNamespaces[i], "title"), FreeText) ]
      \o << Node(QualifiedTag(NsOAI, "dc"), FreeText) >>

Reverse(q) == [ i \in 1..Len(q) |-> q[Len(q) + 1 - i] ]

\* each selection of the nodes, in document order and in the opposite order
VocabularyDocuments ==
    LET chosen == { Keep(VocabularyNodes, keep, 1) : keep \in SUBSET (1..Len(VocabularyNodes)) }
    IN  chosen \cup { Reverse(q) : q \in chosen }

\* an Evaluator right after its construction from one of these records
VocabularyInit ==
    /\ item_id = DoiSelf
    /\ oai_base = Endpoint
    /\ \E reply \in VocabularyDocuments :
          LET made == Evaluator_init(item_id, oai_base, TRUE, [oai_dc |-> NsOAI], {}, reply)
          IN  /\ metadata = made.metadata
              /\ access_protocols = made.access_protocols
              /\ record = reply
    /\ phase = "ready"
    /\ live \in SUBSET { VocabularyNamespaces[i] : i \in DOMAIN VocabularyNamespaces }
    /\ result = NoResult
    /\ score = 0
    /\ view = NoView
    /\ request = NoRequest

VocabularyNext ==
    \/ Call("rda_i2_01m", rda_i2_01m(metadata, live))
    \/ Call("rda_i2_01d", rda_i2_01d(metadata, live))
    \/ Return

SpecVocabulary == VocabularyInit /\ [][VocabularyNext]_vars

\* the distinct schema namespaces of the terms ("" for a term without one)
SchemaNamespaces(md) ==
    { Str(strip_braces(md.rows[j].metadata_schema)) : j \in 1..Len(md.rows) }

(* C13: rda_i2_01m returns 100 * r / n for the n distinct schema namespaces *)
(* of the terms and the r of them that pass the liveness check: 100 iff all *)
(* n resolve (n > 0), 0 iff none does (n = 0 included), whatever the order  *)
(* in which the namespaces are visited.                                     *)
C13_VocabularyShare ==
    (phase = "ready" /\ result.ind = "rda_i2_01m") =>
        LET n == Cardinality(SchemaNamespaces(metadata))
            r == Cardinality({ u \in SchemaNamespaces(metadata) : Resolvable(u, live) })
        IN  /\ result.kind = "ok"
            /\ (n > 0 => result.points = Rat(100 * r, n))
            /\ (RatEq(result.points, 100) <=> (n > 0 /\ r = n))
            /\ (RatEq(result.points, 0) <=> r = 0)

-----------------------------------------------------------------------------
(* Properties of the identifier indicators *)

\* the values of the identifier terms
IdentifierValues(md) ==
    { md.rows[j].text_value : j \in { k \in 1..Len(md.rows) : md.rows[k].element = <<"identifier">> } }

\* an identifier term with at least one detected scheme
HasTypedIdentifier(md) ==
    \E val \in IdentifierValues(md) : val # None /\ detect_identifier_schemes(val) # <<>>

(* C14: rda_f1_01m returns 100 iff at least one identifier term has at      *)
(* least one detected scheme; it returns 0 with an explanatory message when *)
(* there is no identifier term and when no identifier term has a scheme.    *)
C14_PersistenceIffTypedIdentifier ==
    (phase = "ready" /\ result.ind = "rda_f1_01m") =>
        /\ result.kind = "ok"
        /\ (RatEq(result.points, 100) <=> HasTypedIdentifier(metadata))
        /\ (~HasTypedIdentifier(metadata) =>
              (RatEq(result.points, 0) /\ result.msg # <<>>))

\* an identifier term with a detected scheme other than plain URL
HasNonUrlScheme(md) ==
    \E val \in IdentifierValues(md) : val # None /\ (SchemeSet(val) \ {"url"}) # {}

(* C15: rda_f1_02m returns 100 iff at least one identifier term has a       *)
(* detected scheme other than plain URL, identifiers whose scheme list has  *)
(* no 'url' at all (a bare DOI: doi, handle) included; stated here for the  *)
(* calls that return.                                                       *)
C15_UniquenessIffNonUrlScheme ==
    (phase = "ready" /\ result.ind = "rda_f1_02m" /\ result.kind = "ok") =>
        (RatEq(result.points, 100) <=> HasNonUrlScheme(metadata))

(* C16: rda_f3_01m and rda_f1_01m return the same score in every context:   *)
(* without identifier terms, with identifier terms that have no detected    *)
(* scheme, and with identifier terms that have one.                         *)
C16_LinkageEqualsPersistence ==
    /\ (phase = "ready" /\ result.ind = "rda_f3_01m") =>
          /\ result.kind = "ok"
          /\ rda_f1_01m(metadata).kind = "ok"
          /\ result.points = rda_f1_01m(metadata).points
    /\ (phase = "ready" /\ result.ind = "rda_f1_01m") =>
          /\ result.kind = "ok"
          /\ result.points = rda_f3_01m(metadata).points

-----------------------------------------------------------------------------
(* Properties of the delegating indicators *)

\* the outcome held by the caller is the outcome r: the same pair, or a fault
\* where r is one
SameOutcome(r) ==
    /\ result.kind = r.kind
    /\ result.points = r.points
    /\ result.msg = r.msg

(* C17: each delegating indicator ends exactly as its counterpart does on   *)
(* the same context and the same network answers: rda_f1_01d as rda_f1_01m, *)
(* rda_f1_02d as rda_f1_02m, rda_i2_01d as rda_i2_01m, rda_i3_01d as        *)
(* rda_i3_01m, rda_i3_02d as rda_i3_02m and rda_i3_04m as rda_i3_03m.       *)
C17_DelegatesEqualCounterparts ==
    phase = "ready" =>
        /\ (result.ind = "rda_f1_01d" => SameOutcome(rda_f1_01m(metadata)))
        /\ (result.ind = "rda_f1_02d" => SameOutcome(rda_f1_02m(metadata)))
        /\ (result.ind = "rda_i2_01d" => SameOutcome(rda_i2_01m(metadata, live)))
        /\ (result.ind = "rda_i3_01d" => SameOutcome(rda_i3_01m(metadata)))
        /\ (result.ind = "rda_i3_02d" => SameOutcome(rda_i3_02m(metadata, item_id)))
        /\ (result.ind = "rda_i3_04m" => SameOutcome(rda_i3_03m(metadata)))

C17_Witness ==
    /\ phase = "ready"
    /\ result.ind = "rda_i3_04m"
    /\ result.kind = "ok"
    /\ RatEq(result.points, 100)
    /\ rda_i3_01m(metadata).msg # result.msg

-----------------------------------------------------------------------------
(* The network calls: liveness checks, HEAD probes and the harvest requests *)

\* how a request ends once the remote side acts: a response with status 200,
\* a response with another status, or an exception raised by requests
Replies == {"200", "404", "error"}

\* a helper returned the truth value b
Answer(b) == Returned(Whole(0), Msg(IF b THEN "True" ELSE "False"))

DoiResolver == "http://dx.doi.org/"

HandleResolver == "http://hdl.handle.net/"

OrcidResolver == "https://orcid.org/"

Orcid == "0000-0002-1825-0097"

\* the methods that issue one request, each with the arguments it is called
\* with here; "h" is the first character of a license URL, "" the record URL
\* when every candidate was answered with an error
Requesters ==
    [ check_url |-> {PlainUrl, NsDC, NsOAI, DoiSelfUrl, "h"},
      check_doi |-> {DoiSelf, DoiOther},
      check_handle |-> {DoiSelf, DoiOther},
      check_orcid |-> {Orcid},
      head |-> {DataFile, Endpoint},
      oai_request |-> {Endpoint},
      oai_get_metadata |-> {Endpoint, ""} ]

\* the URL a method requests for its argument, as the strings it joins
url_of(op, arg) ==
    CASE op = "check_doi" -> <<DoiResolver, arg>>
      [] op = "check_handle" -> <<HandleResolver, arg>>
      [] op = "check_orcid" -> <<OrcidResolver, arg>>
      [] op = "oai_request" -> <<arg, "?verb=ListMetadataFormats">>
      [] OTHER -> <<arg>>

\* requests raises MissingSchema before anything is sent unless the URL
\* starts with a scheme
accepted(url) ==
    url[1] \in WellFormedUrls \cup {DoiResolver, HandleResolver, OrcidResolver}

\* the end of method op once its request ended with reply: check_url (and
\* check_handle, check_orcid through it) and the HEAD probe of rda_a1_03d
\* catch every exception; check_doi and the two harvest requests do not
finish(op, reply) ==
    CASE op \in {"check_url", "check_handle", "check_orcid", "head"} -> Answer(reply = "200")
      [] op = "check_doi" -> IF reply = "error" THEN Raised(0) ELSE Answer(reply = "200")
      [] OTHER -> IF reply = "error" THEN Raised(0) ELSE Returned(Whole(0), Msg("xmlTree"))

\* a method issues its request and blocks on it: requests is called without
\* timeout, so the call lasts until the remote side acts.  A URL requests does
\* not accept ends the method at once, as an exception does.
Begin(op, arg) ==
    /\ phase = "ready"
    /\ result = NoResult
    /\ request = NoRequest
    /\ IF accepted(url_of(op, arg))
       THEN /\ request' = [op |-> op, url |-> url_of(op, arg), attempts |-> 1, pending |-> TRUE]
            /\ UNCHANGED result
       ELSE /\ request' = [op |-> op, url |-> url_of(op, arg), attempts |-> 0, pending |-> FALSE]
            /\ result' = Outcome(op, Heard(finish(op, "error"), {"error"}))
    /\ UNCHANGED <<item_id, oai_base, metadata, access_protocols, phase, live, score, view,
                   record>>

\* the remote side acts and the blocked method ends
Respond(reply) ==
    /\ request.pending
    /\ result' = Outcome(request.op, Heard(finish(request.op, reply), {reply}))
    /\ request' = [request EXCEPT !.pending = FALSE]
    /\ UNCHANGED <<item_id, oai_base, metadata, access_protocols, phase, live, score, view,
                   record>>

CandidateNames == <<"first", "second", "third">>

\* oai_check_record_url(oai_base, 'oai_dc', item_id) when the candidates in
\* errs are answered with an <error>: the URL it returns, or the IndexError of
\* [0] on an empty scheme list
RecordUrl(errs) ==
    IF Len(detect_identifier_schemes(item_id)) = 0
    THEN Raised(0)
    ELSE Heard(Returned(Whole(0), << oai_check_record_url(oai_base, "oai_dc", item_id, errs) >>),
               { CandidateNames[i] : i \in errs })

\* an Evaluator that holds no outcome, and the callers of the helpers
NetworkInit ==
    /\ item_id \in ItemIds
    /\ oai_base = Endpoint
    /\ metadata = Frame(<<>>)
    /\ access_protocols = <<>>
    /\ phase = "ready"
    /\ live = {}
    /\ result = NoResult
    /\ score = 0
    /\ view = NoView
    /\ request = NoRequest
    /\ record = <<>>

NetworkNext ==
    \/ \E op \in DOMAIN Requesters : \E arg \in Requesters[op] : Begin(op, arg)
    \/ \E reply \in Replies : Respond(reply)
    \/ \E errs \in SUBSET (1..3) : Call("oai_check_record_url", RecordUrl(errs))
    \/ Return

\* the caller is scheduled; nothing obliges the remote side to act
SpecNetwork == NetworkInit /\ [][NetworkNext]_vars /\ WF_vars(Return)

LivenessChecks == {"check_url", "check_doi", "check_handle", "check_orcid"}

(* C18: every liveness check (check_url, check_doi, check_handle,           *)
(* check_orcid) returns true iff the response status is 200 and returns     *)
(* false, never raising, on another status or a network error.              *)
C18_LivenessChecksNeverRaise ==
    result.ind \in LivenessChecks =>
        /\ result.kind = "ok"
        /\ (result.msg = Msg("True") <=> result.net = {"200"})
        /\ (result.msg = Msg("False") <=> result.net # {"200"})

(* C19: every blocking network operation eventually completes even if the  *)
(* remote endpoint never answers: it is attempted at most twice and then    *)
(* treated as failed, so the caller always gets a result.                   *)
C19_NetworkOperationsComplete ==
    /\ [](request.attempts <= 2)
    /\ request.pending ~> (~request.pending /\ result.ind = request.op)

\* the first candidate that is not answered with an error
FirstSuccessful(errs) == CHOOSE i \in (1..3) \ errs : \A j \in (1..3) \ errs : i <= j

(* C20: oai_check_record_url tries the three candidates in order and        *)
(* returns the URL of the first one answered without <error>; a later       *)
(* success never replaces it, and the result is empty only if all three     *)
(* candidates are answered with an error.                                   *)
C20_FirstSuccessfulCandidateWins ==
    (result.ind = "oai_check_record_url" /\ result.kind = "ok") =>
        LET errs == { i \in 1..3 : CandidateNames[i] \in result.net }
            c == record_candidates(oai_base, item_id)
        IN  IF errs = 1..3
            THEN result.msg = << <<>> >>
            ELSE result.msg = << GetRecordUrl(oai_base, "oai_dc", c[FirstSuccessful(errs)]) >>

-----------------------------------------------------------------------------
(* Properties of the evaluation context *)

\* row is the term of node: its schema and element are the two parts of the
\* qualified name, split after the namespace, and its value is the node text
TermOfNode(row, node) ==
    /\ row.metadata_schema \o row.element = node.tag
    /\ \A k \in 1..Len(row.element) : row.element[k] # "}"
    /\ (row.metadata_schema = <<>> \/ row.metadata_schema[Len(row.metadata_schema)] = "}")
    /\ row.text_value = node.text
    /\ row.qualifier = None

(* C21: normalization produces exactly one term per descendant node of the  *)
(* metadata container, in document order with duplicates kept: the i-th     *)
(* term is the namespace / local-name split of the i-th node's name with    *)
(* the node text as value (absent text stays absent) and a null qualifier.  *)
C21_OneTermPerNode ==
    phase = "ready" =>
        /\ ~metadata.isNone
        /\ Len(metadata.rows) = Len(record)
        /\ \A i \in 1..Len(record) : TermOfNode(metadata.rows[i], record[i])

C21_Witness ==
    /\ phase = "ready"
    /\ Len(record) >= 2
    /\ record[1] = record[2]
    /\ record[1].text = None
    /\ metadata.rows[1] = metadata.rows[2]
    /\ metadata.rows[1].text_value = None

-----------------------------------------------------------------------------
(* Properties of the error handling and of the messages *)

\* the indicators that build a resolver URL from the subject identifier
ResolverIndicators == {"rda_a1_01m", "rda_a1_02m", "rda_a1_03m", "rda_a1_03d"}

(* C23: when no identifier scheme is detected for the subject identifier,   *)
(* construction with a metadata source and the indicators that build a      *)
(* resolver URL from it recover at that point: no fault leaves them, and    *)
(* each of these indicators returns score 0 with an explanatory message.    *)
C23_NoSchemeIsRecovered ==
    (item_id # None /\ Len(detect_identifier_schemes(item_id)) = 0) =>
        /\ ~(phase = "failed" /\ oai_base # None /\ result.msg = Msg(NoSchemeError))
        /\ (result.ind \in ResolverIndicators =>
              /\ result.kind = "ok"
              /\ RatEq(result.points, 0)
              /\ result.msg # <<>>)

(* C24: every indicator returns a non-empty explanatory message together    *)
(* with its score; in particular a score of 0 never comes with an empty     *)
(* message; stated for the calls that return.                               *)
C24_MessageNeverEmpty ==
    (result.ind \in Indicators /\ result.kind = "ok") =>
        /\ result.msg # <<>>
        /\ \E k \in 1..Len(result.msg) : result.msg[k] # <<>> /\ result.msg[k][1] # ""

-----------------------------------------------------------------------------
(* C25: the provenance and community-standard indicators rda_r1_2_01m,     *)
(* rda_r1_2_02m, rda_r1_3_01m, rda_r1_3_01d, rda_r1_3_02m and rda_r1_3_02d *)
(* return score 0 with a fixed message in every evaluation context; the    *)
(* outcome does not depend on the term sequence and no network answer is   *)
(* consumed.                                                               *)
Placeholders ==
    { "rda_r1_2_01m", "rda_r1_2_02m", "rda_r1_3_01m", "rda_r1_3_01d", "rda_r1_3_02m",
      "rda_r1_3_02d" }

FixedMessage(name) ==
    IF name = "rda_r1_3_01d"
    THEN Msg("Your data format does not complies with your community standards. If you think this is wrong, please, contact us to include your format.")
    ELSE Msg("Currently, this tool does not include community-bsed schemas. If you need to include yours, please contact.")

C25_PlaceholdersScoreZero ==
    result.ind \in Placeholders =>
        /\ result.kind = "ok"
        /\ RatEq(result.points, 0)
        /\ result.points.ulp = 0
        /\ result.msg = FixedMessage(result.ind)
        /\ result.net = {}
        /\ request = NoRequest

C25_Witness ==
    /\ phase = "ready"
    /\ Len(metadata.rows) > 0
    /\ live # {}
    /\ result.ind = "rda_r1_3_02d"
    /\ RatEq(result.points, 0)
    /\ result.msg = FixedMessage("rda_r1_3_02d")

(* C26: rda_a1_04m and rda_a1_1_01m are binary on the declared access      *)
(* protocols: each returns 100 iff access_protocols is non-empty and 0     *)
(* otherwise, and the two always return the same score.                    *)
OpennessIndicators == {"rda_a1_04m", "rda_a1_1_01m"}

C26_OpennessIsBinary ==
    result.ind \in OpennessIndicators =>
        /\ result.kind = "ok"
        /\ (RatEq(result.points, 100) <=> Len(access_protocols) > 0)
        /\ (RatEq(result.points, 0) <=> Len(access_protocols) = 0)
        /\ RatEq(result.points, 100) \/ RatEq(result.points, 0)
        /\ result.points = rda_a1_04m(access_protocols).points
        /\ result.points = rda_a1_1_01m(access_protocols).points

C26_Witness ==
    /\ result.ind = "rda_a1_1_01m"
    /\ Len(access_protocols) = 0
    /\ RatEq(result.points, 0)
    /\ result.msg = Msg("Metadata can not be accessed via free protocols")

(* C27: rda_f4_01m, rda_i1_01m and rda_i1_02m are binary on the size of    *)
(* the term sequence: each returns 100 iff the term sequence has at least  *)
(* one term and 0 iff it is empty.                                         *)
SizeIndicators == {"rda_f4_01m", "rda_i1_01m", "rda_i1_02m"}

C27_SizeIsBinary ==
    result.ind \in SizeIndicators =>
        /\ result.kind = "ok"
        /\ (RatEq(result.points, 100) <=> Len(metadata.rows) >= 1)
        /\ (RatEq(result.points, 0) <=> Len(metadata.rows) = 0)

C27_Witness ==
    /\ result.ind = "rda_i1_02m"
    /\ Len(metadata.rows) = 1
    /\ RatEq(result.points, 100)

(* C28: rda_i3_01m returns 100 iff the term sequence has a term whose      *)
(* element is contributor or relation, rda_r1_1_01m returns 100 iff it has *)
(* a term whose element is license; each returns 0 otherwise, whatever the *)
(* values of the terms are.                                                *)
HasElement(names) ==
    \E i \in 1..Len(metadata.rows) : \E n \in names : metadata.rows[i].element = <<n>>

ElementSet(name) ==
    IF name = "rda_i3_01m" THEN {"contributor", "relation"} ELSE {"license"}

C28_ElementPresence ==
    result.ind \in {"rda_i3_01m", "rda_r1_1_01m"} =>
        /\ result.kind = "ok"
        /\ (RatEq(result.points, 100) <=> HasElement(ElementSet(result.ind)))
        /\ (RatEq(result.points, 0) <=> ~HasElement(ElementSet(result.ind)))

C28_Witness ==
    /\ result.ind = "rda_i3_01m"
    /\ HasElement({"contributor"})
    /\ ~HasElement({"relation"})
    /\ \E i \in 1..Len(metadata.rows) :
          metadata.rows[i].element = <<"contributor">> /\ metadata.rows[i].text_value = FreeText
    /\ RatEq(result.points, 100)

(* C29: after construction access_protocols is ['http', 'oai-pmh'] iff the *)
(* harvested term sequence is non-empty and empty otherwise, in every      *)
(* later state too; so rda_a1_04m and rda_a1_1_01m return the score that   *)
(* rda_f4_01m returns.                                                     *)
C29_ProtocolsFollowTerms ==
    phase = "ready" =>
        /\ (access_protocols = <<"http", "oai-pmh">> <=> Len(metadata.rows) > 0)
        /\ (access_protocols = <<>> <=> Len(metadata.rows) = 0)
        /\ (result.ind \in OpennessIndicators =>
              result.points = rda_f4_01m(metadata).points)
        /\ (result.ind = "rda_f4_01m" =>
              /\ result.points = rda_a1_04m(access_protocols).points
              /\ result.points = rda_a1_1_01m(access_protocols).points)

C29_Witness ==
    /\ phase = "ready"
    /\ Len(metadata.rows) = 0
    /\ access_protocols = <<>>
    /\ result.ind = "rda_a1_04m"
    /\ RatEq(result.points, 0)

(* C30: the two views of a score never contradict each other: for every    *)
(* score in 0..100 fail never comes with green and pass never with red;    *)
(* every red score is fail, every green score is pass, and the amber       *)
(* scores are fail at 50, indeterminate from 51 to 74 and pass from 75 to  *)
(* 80; so the fixed score of rda_a2_01m is fail and amber.                 *)
BothViews == view.status # Unset /\ view.color # Unset

C30_ViewsAgree ==
    /\ BothViews =>
          /\ ~(view.status = "fail" /\ view.color = ColorGreen)
          /\ ~(view.status = "pass" /\ view.color = ColorRed)
          /\ (view.color = ColorRed => view.status = "fail")
          /\ (view.color = ColorGreen => view.status = "pass")
          /\ (view.color = ColorAmber =>
                /\ (score = 50 => view.status = "fail")
                /\ ((51 <= score /\ score <= 74) => view.status = "indeterminate")
                /\ ((75 <= score /\ score <= 80) => view.status = "pass")
                /\ (50 <= score /\ score <= 80))
          /\ (view.status = "indeterminate" => view.color = ColorAmber)
          /\ (RatEq(rda_a2_01m.points, score) =>
                view.status = "fail" /\ view.color = ColorAmber)
    /\ RatEq(rda_a2_01m.points, 50)

C30_Witness ==
    /\ BothViews
    /\ RatEq(rda_a2_01m.points, score)
    /\ view.status = "fail"
    /\ view.color = ColorAmber

=============================================================================
